---- MODULE Spec2Model ----
(***************************************************************************)
(* State machine of main.py: the shared TrackState written by              *)
(* refresh_state (run by the poller thread and by every /api/state         *)
(* request), the Lyrics Source fallback chain, the LRC parser and the      *)
(* enrichment pipeline, and the page's script (fetchState, highlightLoop). *)
(*                                                                         *)
(* Strings are sequences of characters; the characters are the strings     *)
(* " " (white space), "H1" "H2" (CJK, simplified), "T1" (CJK, the          *)
(* traditional form of H1), "a" "b" (Latin).  Times of lyric lines are in  *)
(* centiseconds so that LRC fractions stay integers.                       *)
(***************************************************************************)
EXTENDS Integers, Sequences, FiniteSets, TLC

\* ------------------------------------------------------------------ bounds
\* progress_ms reported by the Playback Source: 0, 1000, .., MaxProgress*1000
MaxProgress == 1

\* refresh_state calls started when they run one after another (Spec)
MaxTicks == 3

\* refresh_state calls started when the two threads interleave (SpecThreads)
MaxOverlap == 3

\* the page's clock runs over MaxClock steps of half a second
MaxClock == 3

\* the physical lines of a text given to parse_lrc
MaxParseLines == 2

\* the lines given to enrich_with_pinyin_and_trans
MaxEnrichLines == 3

\* --------------------------------------------------------------- constants
Threads == {"poller", "api"}

\* Python's None as a track id
None == "None"

TrackIds == {"t1", "t2"}

\* What the Playback Source can hand to a tick instead of a track item:
\* an exception, or no playback / a non-track item / no item.
PbRaise == "raise"
PbNoTrack == "notrack"

\* The items of the Playback Source.  A title is a sequence of tokens:
\* words, "DASH_REMASTER" (" - Remastered 2011"), "FEAT" ("(feat. X)"),
\* "BR_VERSION" ("[Live Version]").  t2 has duration_ms 0 (item.get default).
Catalogue(tid) ==
    IF tid = "t1"
    THEN [id |-> "t1", name |-> <<"w1", "FEAT", "DASH_REMASTER", "w9">>,
          artists |-> <<"x", "y">>, duration_ms |-> 3000]
    ELSE [id |-> "t2", name |-> <<"w2", "BR_VERSION">>,
          artists |-> <<"z">>, duration_ms |-> 0]

\* ----------------------------------------------------------- pure helpers
RECURSIVE UpToDash(_)
\* re.sub(r"\s*-\s*(remaster...|radio edit|...)\b.*", "", t): the annotation
\* and everything after it goes
UpToDash(t) ==
    IF t = <<>> THEN <<>>
    ELSE IF Head(t) = "DASH_REMASTER" THEN <<>>
    ELSE <<Head(t)>> \o UpToDash(Tail(t))

normalize_title(title) ==
    LET t1 == UpToDash(title)
        t2 == SelectSeq(t1, LAMBDA w : w # "FEAT")
        t3 == SelectSeq(t2, LAMBDA w : w # "BR_VERSION")
    IN  t3

\* ", ".join(names): the csv string is modelled by its comma-separated parts
join_artists(names) == names

\* artists_csv.split(",")[0].strip(); "".split(",")[0] is ""
primary_artist(artists_csv) ==
    IF artists_csv = <<>> THEN <<>> ELSE <<Head(artists_csv)>>

\* int((duration_ms or 0) / 1000)
dur_sec_of(duration_ms) == duration_ms \div 1000

\* ------------------------------------------------------------ lyric text
\* CJK range test of is_cjk: '一' <= ch <= '鿿'
Han == {"H1", "H2", "T1"}

is_cjk(s) == \E i \in 1..Len(s) : s[i] \in Han

\* OpenCC("t2s").convert on one character
SimpChar(c) == IF c = "T1" THEN "H1" ELSE c

opencc_convert(s) == [i \in 1..Len(s) |-> SimpChar(s[i])]

RECURSIVE lstrip(_)
lstrip(s) == IF s # <<>> /\ Head(s) = " " THEN lstrip(Tail(s)) ELSE s

RECURSIVE rstrip(_)
rstrip(s) ==
    IF s # <<>> /\ s[Len(s)] = " " THEN rstrip(SubSeq(s, 1, Len(s) - 1)) ELSE s

\* str.strip()
strip(s) == rstrip(lstrip(s))

\* lazy_pinyin(simp, style=TONE) joined with " ", blank tokens dropped: one
\* syllable per CJK character, other characters pass through
to_pinyin(line) ==
    IF line = <<>> \/ ~is_cjk(line) THEN <<>>
    ELSE LET simp == opencc_convert(line)
             toks == [i \in 1..Len(simp) |->
                        IF simp[i] \in Han THEN <<"py", simp[i]>>
                        ELSE <<"raw", simp[i]>>]
         IN  SelectSeq(toks, LAMBDA tok : tok[2] # " ")

\* A raw LRC line is a sequence of tokens: a tag [mm:ss.frac] matched by
\* LRC_TIME, or one character of other text (a malformed tag is other text).
Tag(mm, ss, frac) == [k |-> "tag", mm |-> mm, ss |-> ss, frac |-> frac]

Ch(c) == [k |-> "ch", c |-> c]

IsTag(tok) == tok.k = "tag"

\* int(frac) of a sequence of at most two digits
FracInt(frac) ==
    IF frac = <<>> THEN 0
    ELSE IF Len(frac) = 1 THEN frac[1]
    ELSE 10 * frac[1] + frac[2]

\* t = mm*60 + ss + cs/denom, denom = 10 for one digit else 100; centiseconds
TagTime(tag) ==
    LET cs == FracInt(tag.frac)
        denom == IF Len(tag.frac) = 1 THEN 10 ELSE 100
    IN  (tag.mm * 60 + tag.ss) * 100 + cs * (100 \div denom)

LrcLine(t, text) == [t |-> t, text |-> text, pinyin |-> <<>>, trans |-> <<>>]

\* the body of parse_lrc's loop for one physical line
parse_raw(raw) ==
    LET times == SelectSeq(raw, IsTag)
        rest  == SelectSeq(raw, LAMBDA tok : ~IsTag(tok))
        lyric == strip([i \in 1..Len(rest) |-> rest[i].c])
    IN  IF lyric = <<>> THEN <<>>
        ELSE [i \in 1..Len(times) |-> LrcLine(TagTime(times[i]), lyric)]

RECURSIVE InsertByT_Unstable(_, _)
\* faulty variant: insertion before the elements with an equal key
InsertByT_Unstable(sorted, ln) ==
    IF sorted = <<>> THEN <<ln>>
    ELSE IF Head(sorted).t < ln.t
         THEN <<Head(sorted)>> \o InsertByT_Unstable(Tail(sorted), ln)
         ELSE <<ln>> \o sorted

RECURSIVE InsertByT(_, _)
\* insertion behind every element with a key <= the new one: a stable sort
InsertByT(sorted, ln) ==
    IF sorted = <<>> THEN <<ln>>
    ELSE IF Head(sorted).t <= ln.t
         THEN <<Head(sorted)>> \o InsertByT(Tail(sorted), ln)
         ELSE <<ln>> \o sorted

RECURSIVE SortByT(_)
\* lines.sort(key=lambda x: x.t)
SortByT(lines) ==
    IF lines = <<>> THEN <<>>
    ELSE InsertByT(SortByT(SubSeq(lines, 1, Len(lines) - 1)), lines[Len(lines)])

RECURSIVE CollectLines(_)
CollectLines(text) ==
    IF text = <<>> THEN <<>>
    ELSE parse_raw(Head(text)) \o CollectLines(Tail(text))

\* faulty variant: the lines are left in the order of the text
parse_lrc_Unsorted(text) == CollectLines(text)

parse_lrc(text) == IF text = <<>> THEN <<>> ELSE SortByT(CollectLines(text))

\* synced.strip() is non-empty: some token other than white space
SyncedNonBlank(text) ==
    \E i \in 1..Len(text) : \E j \in 1..Len(text[i]) :
        IsTag(text[i][j]) \/ text[i][j].c # " "

\* [LrcLine(t=i, text=line.strip()) for i, line in enumerate(plain.splitlines())
\*  if line.strip()]; t = i seconds
lines_from_plain(plain) ==
    LET idx == SelectSeq([i \in 1..Len(plain) |-> i],
                         LAMBDA i : strip(plain[i]) # <<>>)
    IN  [k \in 1..Len(idx) |-> LrcLine((idx[k] - 1) * 100, strip(plain[idx[k]]))]

\* faulty variant: every occurrence is kept
Dedup_None(texts) == texts

RECURSIVE Dedup(_)
\* dict.fromkeys(lines): first occurrences, in order
Dedup(texts) ==
    IF texts = <<>> THEN <<>>
    ELSE LET front == Dedup(SubSeq(texts, 1, Len(texts) - 1))
             last  == texts[Len(texts)]
         IN  IF \E i \in 1..Len(front) : front[i] = last
             THEN front ELSE Append(front, last)

\* uniq of batch_translate
uniq_cjk(texts) == SelectSeq(Dedup(texts), is_cjk)

\* translator.translate(simp) of a text that translates: its English
English(s) == <<"en", opencc_convert(s)>>

\* batch_translate(lines) as the set of pairs <<text, english>>; avail: the
\* Argos model is installed; fails: the texts whose translate call raises or
\* returns nothing
batch_translate(texts, avail, fails) ==
    LET uniq == uniq_cjk(texts)
    IN  { <<uniq[i], IF avail /\ uniq[i] \notin fails
                     THEN English(uniq[i]) ELSE <<>> >> : i \in 1..Len(uniq) }

\* the texts translator.translate is called for, in order (lines 151-155); no
\* call is made when the Argos model is not installed (lines 146-150)
translate_calls(texts, avail) == IF avail THEN uniq_cjk(texts) ELSE <<>>

\* mapping.get(text, "") or ""
mapping_get(mapping, text) ==
    IF \E p \in mapping : p[1] = text
    THEN (CHOOSE p \in mapping : p[1] = text)[2]
    ELSE <<>>

\* ADD_TRANSLATION is True
enrich_with_pinyin_and_trans(lines, avail, fails) ==
    LET mapping == batch_translate([i \in 1..Len(lines) |-> lines[i].text],
                                   avail, fails)
    IN  [i \in 1..Len(lines) |->
            [t |-> lines[i].t, text |-> lines[i].text,
             pinyin |-> to_pinyin(lines[i].text),
             trans |-> mapping_get(mapping, lines[i].text)]]

\* The records the Lyrics Source can answer a 200 with, for a queried title.
SyncedText == << <<Tag(0, 1, <<5>>), Ch("H1"), Ch("T1")>>,
                 <<Tag(0, 2, <<>>), Ch(" ")>>,
                 <<Tag(0, 0, <<>>), Ch(" "), Ch("a")>> >>

PlainText == << <<"H2">>, <<" ">>, <<"a", " ">> >>

NoneData == [kind |-> "None", trackName |-> <<>>,
             plainLyrics |-> <<>>, syncedLyrics |-> <<>>]

Docs(title) ==
    { [kind |-> "json", trackName |-> title,
       plainLyrics |-> PlainText, syncedLyrics |-> SyncedText],
      [kind |-> "json", trackName |-> title,
       plainLyrics |-> PlainText, syncedLyrics |-> <<>>] }

\* ----------------------------------------------------------- Lyrics Source
\* Answers to GET /get and GET /search: an exception of requests.get (network
\* failure, timeout), or a status; "list" is a 200 with candidates, "empty"
\* a 200 with none.
GetAnswers == {"raise", "200", "404", "500"}

SearchAnswers == {"raise", "list", "empty", "500"}

\* fetch_lrclib(artist, title, duration_sec) when the Lyrics Source answers
\* the requests it receives with r1 (get), r2 (search), r3 (get by id) and a
\* 200 carries doc: [out, doc, http], http the answers actually received
fetch_lrclib(artist, title, duration_sec, r1, r2, r3, doc) ==
    IF r1 = "raise" THEN [out |-> "raise", doc |-> NoneData, http |-> <<r1>>]
    ELSE IF r1 = "404"
    THEN IF r2 = "raise"
         THEN [out |-> "raise", doc |-> NoneData, http |-> <<r1, r2>>]
         ELSE IF r2 # "list"
         THEN [out |-> "None", doc |-> NoneData, http |-> <<r1, r2>>]
         ELSE IF r3 = "raise"
         THEN [out |-> "raise", doc |-> NoneData, http |-> <<r1, r2, r3>>]
         ELSE IF r3 # "200"
         THEN [out |-> "None", doc |-> NoneData, http |-> <<r1, r2, r3>>]
         ELSE [out |-> "data", doc |-> doc, http |-> <<r1, r2, r3>>]
    ELSE IF r1 # "200"
    THEN [out |-> "None", doc |-> NoneData, http |-> <<r1>>]
    ELSE [out |-> "data", doc |-> doc, http |-> <<r1>>]

\* some request of one fetch_lrclib call failed: a network failure, or a
\* status that is neither 200 nor the 404 of the direct lookup
HttpFailed(http) ==
    \E j \in 1..Len(http) :
        \/ http[j] \in {"raise", "500"}
        \/ j = 3 /\ http[j] = "404"

\* duration_sec = None
NoDuration == -1

\* The arguments of the n-th fetch_lrclib call of the or-chain (lines 229-231);
\* the third reads state.artists again
AttemptArgs(n, qq, st) ==
    IF n = 1 THEN [artist |-> qq.artist_q, title |-> qq.title_q, dur |-> qq.dur_sec]
    ELSE IF n = 2
    THEN [artist |-> qq.artist_q, title |-> qq.title_q, dur |-> NoDuration]
    ELSE [artist |-> st.artists, title |-> qq.title_q, dur |-> qq.dur_sec]

\* faulty variant: the chain does not stop at the first result
AfterAttempt_NoShortCircuit(n, out) ==
    IF out = "raise" THEN "raise"
    ELSE IF n < 3 THEN "next"
    ELSE IF out = "data" THEN "found"
    ELSE "notfound"

\* "a or b or c": where the chain goes after the n-th call returned out
AfterAttempt(n, out) ==
    IF out = "raise" THEN "raise"
    ELSE IF out = "data" THEN "found"
    ELSE IF n < 3 THEN "next"
    ELSE "notfound"

\* ------------------------------------------------------------------ state
VARIABLES
    state,      \* the module-level TrackState
    pc,         \* per thread: where it stands in refresh_state / api_state
    pb,         \* per thread: what the Playback Source answered this tick
    changed,    \* per thread: the local `changed`
    q,          \* per thread: title_q, artist_q, dur_sec
    calls,      \* per thread: the fetch_lrclib calls of this tick, in order
    data,       \* per thread: the local `data`
    exc,        \* per thread: an exception is propagating out of refresh_state
    resp,       \* the last answer of /api/state
    owner,      \* history: the trackName the lines / the plain lyrics came from,
                \* and whether the Argos model was installed for the lines
    last_tick,  \* history: the refresh_state call that returned last
    nticks      \* history: the refresh_state calls started

serverVars == <<state, pc, pb, changed, q, calls, data, exc, resp, owner,
                last_tick, nticks>>

\* the page's script (lines 403-408) and its clock
VARIABLES
    lrc,           \* let lrc = []
    startedAt,     \* Date.now() of the sample the position is counted from
    baseProgress,  \* progress_ms of that sample
    lastProgress,  \* progress_ms of the latest sample
    currentIdx,    \* index of the active line (0-based), -1 for none
    lastLyricsSig, \* lyricsSignature of the lines on display
    looping,       \* highlightLoop has been started
    now,           \* Date.now(), in ms
    rows,          \* the number of elements r0, r1, ... in #lyrics
    active,        \* the indices of the rows of class 'active'
    sample,        \* history: the latest sample and when it arrived
    posMs,         \* history: the position highlightLoop last computed from
                   \* the latest sample, -1 when it has not run since
    prevIdx        \* history: currentIdx as that run of highlightLoop found
                   \* it, -2 when it has not run since

clientVars == <<lrc, startedAt, baseProgress, lastProgress, currentIdx,
                lastLyricsSig, looping, now, rows, active, sample, posMs,
                prevIdx>>

\* a pure function on its own: the arguments given and what it returned
VARIABLES arg, result

pureVars == <<arg, result>>

vars == <<serverVars, clientVars, pureVars>>

locals == <<pb, changed, q, calls, data, exc>>

NoPb == [kind |-> "none", tid |-> None, progress_ms |-> 0, is_playing |-> FALSE]

NoQuery == [title_q |-> <<>>, artist_q |-> <<>>, dur_sec |-> 0]

NoResp == [kind |-> "none"]

NoSample == [progress_ms |-> 0, is_playing |-> FALSE, any |-> FALSE,
             at |-> 0, lrc |-> <<>>]

NoArg == [fn |-> "none"]

\* Date.now() when the page loads: any instant after the epoch
PageLoad == 1000 * 1000

\* state = TrackState(lrc_lines=[])
InitState ==
    [track_id |-> None, title |-> <<>>, artists |-> <<>>, duration_ms |-> 0,
     progress_ms |-> 0, is_playing |-> FALSE, lrc_lines |-> <<>>,
     plain_lyrics |-> <<>>, last_error |-> <<>>]

InitServer ==
    /\ state = InitState
    /\ pc = [t \in Threads |-> "idle"]
    /\ pb = [t \in Threads |-> NoPb]
    /\ changed = [t \in Threads |-> FALSE]
    /\ q = [t \in Threads |-> NoQuery]
    /\ calls = [t \in Threads |-> <<>>]
    /\ data = [t \in Threads |-> NoneData]
    /\ exc = [t \in Threads |-> FALSE]
    /\ resp = NoResp
    /\ owner = [lines |-> <<>>, plain |-> <<>>, argos |-> "none"]
    /\ last_tick = [rep |-> "none", seen |-> None, failed |-> FALSE,
                    changed |-> FALSE]
    /\ nticks = 0

\* lines 403-408, before the first fetchState
InitClock ==
    /\ startedAt = 0
    /\ baseProgress = 0
    /\ lastProgress = 0
    /\ now = PageLoad
    /\ sample = NoSample
    /\ posMs = -1
    /\ prevIdx = -2

InitClient ==
    /\ InitClock
    /\ lrc = <<>>
    /\ currentIdx = -1
    /\ lastLyricsSig = <<>>
    /\ looping = FALSE
    /\ rows = 0
    /\ active = {}

InitPure == arg = NoArg /\ result = NoArg

Init == InitServer /\ InitClient /\ InitPure

\* --------------------------------------------------------- refresh_state
\* faulty variant: the error path also marks playback as stopped
OnPlaybackError_AlsoStops(st) ==
    [st EXCEPT !.last_error = <<"spotify error">>, !.is_playing = FALSE]

\* except Exception as e: state.last_error = f"spotify error: {e}"
OnPlaybackError(st) == [st EXCEPT !.last_error = <<"spotify error">>]

\* faulty variant: a tick without a track drops the lyrics
OnNoTrack_DropsLyrics(st) ==
    [st EXCEPT !.is_playing = FALSE, !.lrc_lines = <<>>, !.plain_lyrics = <<>>]

\* faulty variant: a tick without a track forgets the track id
OnNoTrack_ForgetsTrack(st) ==
    [st EXCEPT !.is_playing = FALSE, !.track_id = None]

\* state.is_playing = False (lines 204 and 209)
OnNoTrack(st) == [st EXCEPT !.is_playing = FALSE]

\* faulty variant: every tick with a track counts as a track change
Changed_Always(tid, st) == TRUE

\* changed = (tid != state.track_id)
Changed(tid, st) == tid # st.track_id

\* lines 215-221
\* faulty variant: last_error is left as it was
UpdateState_KeepsError(st, item, progress_ms, is_playing) ==
    [st EXCEPT !.track_id = item.id,
               !.title = item.name,
               !.artists = join_artists(item.artists),
               !.duration_ms = item.duration_ms,
               !.progress_ms = progress_ms,
               !.is_playing = is_playing]

UpdateState(st, item, progress_ms, is_playing) ==
    [st EXCEPT !.track_id = item.id,
               !.title = item.name,
               !.artists = join_artists(item.artists),
               !.duration_ms = item.duration_ms,
               !.progress_ms = progress_ms,
               !.is_playing = is_playing,
               !.last_error = <<>>]

\* lines 196-201: ensure_sp() or current_playback() raises
PlaybackError(self) ==
    /\ pc[self] = "idle"
    /\ nticks' = nticks + 1
    /\ pb' = [pb EXCEPT ![self] = [NoPb EXCEPT !.kind = PbRaise]]
    /\ state' = OnPlaybackError(state)
    /\ pc' = [pc EXCEPT ![self] = "ret"]
    /\ UNCHANGED <<changed, q, calls, data, exc, resp, owner, last_tick,
                   clientVars, pureVars>>

\* lines 203-210: no playback, not a track, or no item
PlaybackNoTrack(self) ==
    /\ pc[self] = "idle"
    /\ nticks' = nticks + 1
    /\ pb' = [pb EXCEPT ![self] = [NoPb EXCEPT !.kind = PbNoTrack]]
    /\ state' = OnNoTrack(state)
    /\ pc' = [pc EXCEPT ![self] = "ret"]
    /\ UNCHANGED <<changed, q, calls, data, exc, resp, owner, last_tick,
                   clientVars, pureVars>>

\* lines 196-212: the Playback Source reports a track item
PlaybackTrack(self, maxp) ==
    /\ pc[self] = "idle"
    /\ nticks' = nticks + 1
    /\ \E tid \in TrackIds, p \in 0..maxp, playing \in BOOLEAN :
          pb' = [pb EXCEPT ![self] = [kind |-> "track", tid |-> tid,
                                      progress_ms |-> p * 1000,
                                      is_playing |-> playing]]
    /\ pc' = [pc EXCEPT ![self] = "check"]
    /\ UNCHANGED <<state, changed, q, calls, data, exc, resp, owner, last_tick,
                   clientVars, pureVars>>

\* line 213
CheckChanged(self) ==
    /\ pc[self] = "check"
    /\ changed' = [changed EXCEPT ![self] = Changed(pb[self].tid, state)]
    /\ pc' = [pc EXCEPT ![self] = "update"]
    /\ UNCHANGED <<state, pb, q, calls, data, exc, resp, owner, last_tick,
                   nticks,
                   clientVars, pureVars>>

\* lines 215-223
UpdateTrack(self) ==
    /\ pc[self] = "update"
    /\ state' = UpdateState(state, Catalogue(pb[self].tid),
                            pb[self].progress_ms, pb[self].is_playing)
    /\ pc' = [pc EXCEPT ![self] = IF changed[self] THEN "prep" ELSE "ret"]
    /\ UNCHANGED <<pb, changed, q, calls, data, exc, resp, owner, last_tick,
                   nticks,
                   clientVars, pureVars>>

\* lines 225-227
PrepQuery(self) ==
    /\ pc[self] = "prep"
    /\ q' = [q EXCEPT ![self] = [title_q |-> normalize_title(state.title),
                                 artist_q |-> primary_artist(state.artists),
                                 dur_sec |-> dur_sec_of(state.duration_ms)]]
    /\ pc' = [pc EXCEPT ![self] = "fetch"]
    /\ UNCHANGED <<state, pb, changed, calls, data, exc, resp, owner, last_tick,
                   nticks,
                   clientVars, pureVars>>

\* lines 229-231: one fetch_lrclib call of the chain
Fetch(self, gets, searches) ==
    /\ pc[self] = "fetch"
    /\ LET n == Len(calls[self]) + 1
           a == AttemptArgs(n, q[self], state)
       IN  \E r1 \in gets :
           \E r2 \in IF r1 = "404" THEN searches ELSE {"unasked"} :
           \E r3 \in IF r2 = "list" THEN gets ELSE {"unasked"} :
           \E doc \in Docs(a.title) :
             LET r == fetch_lrclib(a.artist, a.title, a.dur, r1, r2, r3, doc)
                 go == AfterAttempt(n, r.out)
             IN  /\ calls' = [calls EXCEPT ![self] =
                                Append(@, [n |-> n, artist |-> a.artist,
                                           title |-> a.title, dur |-> a.dur,
                                           out |-> r.out, doc |-> r.doc,
                                           failed |-> HttpFailed(r.http)])]
                 /\ data' = [data EXCEPT ![self] =
                                IF go = "found" THEN r.doc ELSE NoneData]
                 /\ exc' = [exc EXCEPT ![self] = (go = "raise")]
                 /\ pc' = [pc EXCEPT ![self] =
                             IF go = "raise" THEN "ret"
                             ELSE IF go = "next" THEN "fetch"
                             ELSE "plain"]
    /\ UNCHANGED <<state, pb, changed, q, resp, owner, last_tick, nticks,
                   clientVars, pureVars>>

\* lines 247-250: the texts translate() may be asked for
CjkTexts(lines) == { lines[i].text : i \in { j \in 1..Len(lines) : is_cjk(lines[j].text) } }

\* lines 236-242: parsed
ParsedLines(doc, st) ==
    IF SyncedNonBlank(doc.syncedLyrics)
    THEN parse_lrc(doc.syncedLyrics)
    ELSE lines_from_plain(st.plain_lyrics)

\* lines 247-248: the condition of the advisory
NeedsAdvisory(lines) ==
    /\ \A i \in 1..Len(lines) : lines[i].trans = <<>>
    /\ \E i \in 1..Len(lines) : is_cjk(lines[i].text)

\* lines 249-250
WithAdvisory(st) ==
    IF NeedsAdvisory(st.lrc_lines)
    THEN [st EXCEPT !.last_error = @ \o <<"argos not installed">>]
    ELSE st

\* line 234 (data found) or line 255 (not found)
StorePlain(self) ==
    /\ pc[self] = "plain"
    /\ IF data[self].kind = "json"
       THEN /\ state' = [state EXCEPT !.plain_lyrics = data[self].plainLyrics]
            /\ owner' = [owner EXCEPT !.plain = data[self].trackName]
            /\ pc' = [pc EXCEPT ![self] = "lines"]
       ELSE /\ state' = [state EXCEPT !.plain_lyrics = <<>>]
            /\ owner' = [owner EXCEPT !.plain = q[self].title_q]
            /\ pc' = [pc EXCEPT ![self] = "clear"]
    /\ UNCHANGED <<locals, resp, last_tick, nticks,
                   clientVars, pureVars>>

\* lines 235-244: parse or synthesize, enrich, publish the lines; the Argos
\* model is installed or not (avails), and translate may fail on a text or
\* not (mayfail)
StoreLines(self, avails, mayfail) ==
    /\ pc[self] = "lines"
    /\ LET parsed == ParsedLines(data[self], state)
       IN  \E avail \in avails :
           \E fails \in IF mayfail THEN SUBSET CjkTexts(parsed) ELSE {{}} :
             /\ state' = [state EXCEPT !.lrc_lines =
                             enrich_with_pinyin_and_trans(parsed, avail, fails)]
             /\ owner' = [owner EXCEPT
                             !.lines = IF SyncedNonBlank(data[self].syncedLyrics)
                                       THEN data[self].trackName
                                       ELSE owner.plain,
                             !.argos = IF avail THEN "yes" ELSE "no"]
    /\ pc' = [pc EXCEPT ![self] = "advise"]
    /\ UNCHANGED <<locals, resp, last_tick, nticks,
                   clientVars, pureVars>>

\* lines 247-253
Advise(self) ==
    /\ pc[self] = "advise"
    /\ state' = WithAdvisory(state)
    /\ pc' = [pc EXCEPT ![self] = "ret"]
    /\ UNCHANGED <<locals, resp, owner, last_tick, nticks,
                   clientVars, pureVars>>

\* line 256
ClearLines(self) ==
    /\ pc[self] = "clear"
    /\ state' = [state EXCEPT !.lrc_lines = <<>>]
    /\ owner' = [owner EXCEPT !.lines = q[self].title_q, !.argos = "none"]
    /\ pc' = [pc EXCEPT ![self] = "ret"]
    /\ UNCHANGED <<locals, resp, last_tick, nticks,
                   clientVars, pureVars>>

\* a Lyrics Source request of the tick failed
LyricsCallFailed(cs) == \E i \in 1..Len(cs) : cs[i].failed

\* history: what the Playback Source reported to the returning call (rep),
\* the last track id any finished call was given (seen), and whether a
\* Lyrics Source request of the call failed while it got no lyrics (failed)
TickSummary(self) ==
    [rep |-> IF pb[self].kind = "track" THEN pb[self].tid ELSE pb[self].kind,
     seen |-> IF pb[self].kind = "track" THEN pb[self].tid ELSE last_tick.seen,
     failed |-> LyricsCallFailed(calls[self]) /\ data[self].kind # "json",
     changed |-> changed[self]]

ResetLocals(self) ==
    /\ pb' = [pb EXCEPT ![self] = NoPb]
    /\ changed' = [changed EXCEPT ![self] = FALSE]
    /\ q' = [q EXCEPT ![self] = NoQuery]
    /\ calls' = [calls EXCEPT ![self] = <<>>]
    /\ data' = [data EXCEPT ![self] = NoneData]
    /\ exc' = [exc EXCEPT ![self] = FALSE]

\* poller, lines 261-265: refresh_state returned or raised; then sleep
OnPollerReturn(st, raised) ==
    IF raised THEN [st EXCEPT !.last_error = <<"poller error">>] ELSE st

\* the try/except of the loop catches every Exception: time.sleep(POLL_SEC)
\* comes next ("idle"); an exception that escaped would end the thread
PollerAfter(raised) == "idle"

PollerReturn(self) ==
    /\ self = "poller"
    /\ pc[self] = "ret"
    /\ state' = OnPollerReturn(state, exc[self])
    /\ last_tick' = TickSummary(self)
    /\ pc' = [pc EXCEPT ![self] = PollerAfter(exc[self])]
    /\ ResetLocals(self)
    /\ UNCHANGED <<resp, owner, nticks,
                   clientVars, pureVars>>

\* api_state, line 272: refresh_state returned, or raised (Flask answers 500)
ApiReturn(self) ==
    /\ self = "api"
    /\ pc[self] = "ret"
    /\ last_tick' = TickSummary(self)
    /\ IF exc[self]
       THEN /\ resp' = [kind |-> "500"]
            /\ pc' = [pc EXCEPT ![self] = "respond"]
       ELSE /\ resp' = resp
            /\ pc' = [pc EXCEPT ![self] = "payload"]
    /\ ResetLocals(self)
    /\ UNCHANGED <<state, owner, nticks,
                   clientVars, pureVars>>

\* api_state, lines 273-284
Payload(st, own) ==
    [kind |-> "200", track_id |-> st.track_id, title |-> st.title,
     artists |-> st.artists, duration_ms |-> st.duration_ms,
     progress_ms |-> st.progress_ms, is_playing |-> st.is_playing,
     plain_lyrics |-> st.plain_lyrics, lrc |-> st.lrc_lines,
     error |-> st.last_error, owner |-> own]

ApiPayload(self) ==
    /\ self = "api"
    /\ pc[self] = "payload"
    /\ resp' = Payload(state, owner)
    /\ pc' = [pc EXCEPT ![self] = "respond"]
    /\ UNCHANGED <<state, locals, owner, last_tick, nticks,
                   clientVars, pureVars>>

\* the answer leaves the server: the request is over
ApiRespond(self) ==
    /\ self = "api"
    /\ pc[self] = "respond"
    /\ resp' = NoResp
    /\ pc' = [pc EXCEPT ![self] = "idle"]
    /\ UNCHANGED <<state, locals, owner, last_tick, nticks,
                   clientVars, pureVars>>

\* ------------------------------------------------------- the page's script
\* lyricsSignature(arr): "0", or length | first text | last text
lyricsSignature(arr) ==
    IF arr = <<>> THEN <<0>>
    ELSE <<Len(arr), arr[1].text, arr[Len(arr)].text>>

\* posSec of highlightLoop, in ms: (baseProgress + max(0, now - startedAt))
PositionMs(base, started, t) ==
    base + (IF t - started > 0 THEN t - started ELSE 0)

RECURSIVE BSearch(_, _, _, _, _)
\* the while loop of lines 445-450 on 0-based indices; line times are in
\* centiseconds, the position in ms
BSearch(arr, pos, lo, hi, cand) ==
    IF lo > hi THEN cand
    ELSE LET mid == (lo + hi) \div 2
         IN  IF arr[mid + 1].t * 10 <= pos
             THEN BSearch(arr, pos, mid + 1, hi, mid)
             ELSE BSearch(arr, pos, lo, mid - 1, cand)

\* lines 445-451
Candidate(arr, pos) ==
    LET cand == BSearch(arr, pos, 0, Len(arr) - 1, -1)
    IN  IF cand < 0 THEN 0 ELSE cand

\* faulty variant: a forward switch is made as soon as the position is 40% of
\* the way to the next line, before the next line's time
NextIdx_SwitchAtThreshold(arr, idx, pos) ==
    LET cand == Candidate(arr, pos)
    IN  IF idx = -1 THEN cand
        ELSE IF cand < idx THEN cand
        ELSE IF idx + 1 < Len(arr)
                /\ pos >= arr[idx + 1].t * 10
                      + 4 * (arr[idx + 2].t - arr[idx + 1].t)
        THEN (IF cand > idx THEN cand ELSE idx + 1)
        ELSE idx

\* faulty variant: the threshold lies 140% of the gap behind the retained line
NextIdx_HoldsBack(arr, idx, pos) ==
    LET cand == Candidate(arr, pos)
    IN  IF idx = -1 THEN cand
        ELSE IF cand > idx
        THEN LET curT == arr[idx + 1].t
             IN  IF idx + 1 < Len(arr)
                     /\ pos >= curT * 10 + 14 * (arr[idx + 2].t - curT)
                 THEN cand ELSE idx
        ELSE IF cand < idx THEN cand
        ELSE idx

\* lines 453-462: the retained index after one frame; nextT is 1e9 seconds
\* past the last line, which no position of the model reaches
NextIdx(arr, idx, pos) ==
    LET cand == Candidate(arr, pos)
    IN  IF idx = -1 THEN cand
        ELSE IF cand > idx
        THEN LET curT == arr[idx + 1].t
             IN  IF idx + 1 < Len(arr)
                     /\ pos >= curT * 10 + 4 * (arr[idx + 2].t - curT)
                 THEN cand ELSE idx
        ELSE IF cand < idx THEN cand
        ELSE idx

\* what /api/state can answer with: the lines and the plain lyrics
LinesSynced == enrich_with_pinyin_and_trans(parse_lrc(SyncedText), TRUE, {})

LinesPlain == enrich_with_pinyin_and_trans(lines_from_plain(PlainText), TRUE, {})

\* the lyrics of another track with the same words at other times
SyncedOther == << <<Tag(0, 2, <<>>), Ch(" "), Ch("a")>>,
                  <<Tag(0, 3, <<>>), Ch("H1"), Ch("T1")>> >>

LinesOther == enrich_with_pinyin_and_trans(parse_lrc(SyncedOther), TRUE, {})

AnswerLyrics ==
    { [lrc |-> LinesSynced, plain_lyrics |-> PlainText],
      [lrc |-> LinesOther, plain_lyrics |-> PlainText],
      [lrc |-> LinesPlain, plain_lyrics |-> PlainText],
      [lrc |-> <<>>, plain_lyrics |-> << <<" ">> >>],
      [lrc |-> <<>>, plain_lyrics |-> <<>>] }

Answers ==
    { [kind |-> "500"] } \cup
    { [kind |-> "200", progress_ms |-> p * 1000, is_playing |-> playing,
       lrc |-> ly.lrc, plain_lyrics |-> ly.plain_lyrics] :
         p \in 0..MaxProgress, playing \in BOOLEAN, ly \in AnswerLyrics }

\* lines 484-490: the new startedAt and baseProgress
Anchor(j, started, base, last, t) ==
    IF j.progress_ms >= last
    THEN [startedAt |-> t, baseProgress |-> j.progress_ms]
    ELSE [startedAt |-> started, baseProgress |-> base]

\* renderLyrics (lines 422-438): the rows of #lyrics are built anew, none of
\* them active; currentIdx is reset when there are lines
renderLyrics(arr, idx) ==
    [rows |-> Len(arr), active |-> {},
     currentIdx |-> IF arr = <<>> THEN idx ELSE -1]

\* faulty variant: showing the plain lyrics leaves the rows of #lyrics alone
Display_KeepsRows(j, arr, sig, idx, nrows, act) ==
    LET kept == [lrc |-> arr, lastLyricsSig |-> sig, currentIdx |-> idx,
                 rows |-> nrows, active |-> act]
    IN  IF j.lrc # <<>>
        THEN IF lyricsSignature(j.lrc) # sig
             THEN LET r == renderLyrics(j.lrc, idx)
                  IN  [lrc |-> j.lrc, lastLyricsSig |-> lyricsSignature(j.lrc),
                       currentIdx |-> r.currentIdx, rows |-> r.rows,
                       active |-> r.active]
             ELSE kept
        ELSE IF j.plain_lyrics # <<>>
        THEN [lrc |-> <<>>, lastLyricsSig |-> <<0>>, currentIdx |-> -1,
              rows |-> nrows, active |-> act]
        ELSE kept

\* lines 492-507: the new lrc, lastLyricsSig, currentIdx and rows of #lyrics
Display(j, arr, sig, idx, nrows, act) ==
    LET kept == [lrc |-> arr, lastLyricsSig |-> sig, currentIdx |-> idx,
                 rows |-> nrows, active |-> act]
    IN  IF j.lrc # <<>>
        THEN IF lyricsSignature(j.lrc) # sig
             THEN LET r == renderLyrics(j.lrc, idx)
                  IN  [lrc |-> j.lrc, lastLyricsSig |-> lyricsSignature(j.lrc),
                       currentIdx |-> r.currentIdx, rows |-> r.rows,
                       active |-> r.active]
             ELSE kept
        ELSE IF j.plain_lyrics # <<>>
        THEN [lrc |-> <<>>, lastLyricsSig |-> <<0>>, currentIdx |-> -1,
              rows |-> 0, active |-> {}]
        ELSE kept

\* lines 464-473: the rows of class 'active' after the loop over lrc
Paint(arr, idx, nrows, act) ==
    LET seen == {i \in 0..(Len(arr) - 1) : i < nrows}
    IN  (act \ seen) \cup {i \in seen : i = idx}

\* the sample as the page got it
Sampled(j, t) ==
    [progress_ms |-> j.progress_ms, is_playing |-> j.is_playing, any |-> TRUE,
     at |-> t, lrc |-> j.lrc]

\* a fetchState started by setInterval, from the arrival of the answer on
\* (lines 480-510); an answer that is no JSON throws into the catch, which
\* only shows the error
FetchState(j) ==
    /\ IF j.kind = "200"
       THEN LET a == Anchor(j, startedAt, baseProgress, lastProgress, now)
                d == Display(j, lrc, lastLyricsSig, currentIdx, rows, active)
            IN  /\ startedAt' = a.startedAt
                /\ baseProgress' = a.baseProgress
                /\ lastProgress' = j.progress_ms
                /\ lrc' = d.lrc
                /\ lastLyricsSig' = d.lastLyricsSig
                /\ currentIdx' = d.currentIdx
                /\ rows' = d.rows
                /\ active' = d.active
                /\ sample' = Sampled(j, now)
                /\ posMs' = -1
                /\ prevIdx' = -2
       ELSE UNCHANGED <<startedAt, baseProgress, lastProgress, lrc,
                        lastLyricsSig, currentIdx, rows, active, sample,
                        posMs, prevIdx>>
    /\ UNCHANGED <<looping, now, serverVars, pureVars>>

\* line 522: the first fetchState, then renderLyrics() and highlightLoop()
FirstFetch(j) ==
    /\ ~looping
    /\ looping' = TRUE
    /\ LET ok == j.kind = "200"
           a == IF ok
                THEN Anchor(j, startedAt, baseProgress, lastProgress, now)
                ELSE [startedAt |-> startedAt, baseProgress |-> baseProgress]
           d == IF ok
                THEN Display(j, lrc, lastLyricsSig, currentIdx, rows, active)
                ELSE [lrc |-> lrc, lastLyricsSig |-> lastLyricsSig,
                      currentIdx |-> currentIdx, rows |-> rows,
                      active |-> active]
           r == renderLyrics(d.lrc, d.currentIdx)
           pos == PositionMs(a.baseProgress, a.startedAt, now)
           idx == NextIdx(d.lrc, r.currentIdx, pos)
       IN  /\ startedAt' = a.startedAt
           /\ baseProgress' = a.baseProgress
           /\ lastProgress' = IF ok THEN j.progress_ms ELSE lastProgress
           /\ lrc' = d.lrc
           /\ lastLyricsSig' = d.lastLyricsSig
           /\ currentIdx' = idx
           /\ rows' = r.rows
           /\ active' = Paint(d.lrc, idx, r.rows, r.active)
           /\ sample' = IF ok THEN Sampled(j, now) ELSE sample
           /\ posMs' = IF ok THEN pos ELSE posMs
           /\ prevIdx' = IF ok THEN r.currentIdx ELSE prevIdx
    /\ UNCHANGED <<now, serverVars, pureVars>>

\* one animation frame: lines 440-473
HighlightLoop ==
    /\ looping
    /\ LET pos == PositionMs(baseProgress, startedAt, now)
           idx == NextIdx(lrc, currentIdx, pos)
       IN  /\ currentIdx' = idx
           /\ active' = Paint(lrc, idx, rows, active)
           /\ posMs' = IF sample.any THEN pos ELSE posMs
           /\ prevIdx' = IF sample.any THEN currentIdx ELSE prevIdx
    /\ UNCHANGED <<lrc, startedAt, baseProgress, lastProgress, lastLyricsSig,
                   looping, now, rows, sample, serverVars, pureVars>>

\* half a second passes
ClockTick ==
    /\ now < PageLoad + 500 * MaxClock
    /\ now' = now + 500
    /\ UNCHANGED <<lrc, startedAt, baseProgress, lastProgress, currentIdx,
                   lastLyricsSig, looping, rows, active, sample, posMs,
                   prevIdx, serverVars, pureVars>>

\* ------------------------------------------------------- specifications
\* the steps of a started refresh_state / api_state call; the Lyrics Source
\* answers from gets and searches, the translation backend is as good as ok
Body(self, gets, searches, ok) ==
    \/ CheckChanged(self)
    \/ UpdateTrack(self)
    \/ PrepQuery(self)
    \/ Fetch(self, gets, searches)
    \/ StorePlain(self)
    \/ StoreLines(self, ok, FALSE \in ok)
    \/ Advise(self)
    \/ ClearLines(self)
    \/ PollerReturn(self)
    \/ ApiReturn(self)
    \/ ApiPayload(self)
    \/ ApiRespond(self)

\* refresh_state calls run one after another (poller ticks and requests in
\* any order): a call starts only while no other one is running
Alone(self) == \A o \in Threads \ {self} : pc[o] = "idle"

TickError(self) ==
    Alone(self) /\ nticks < MaxTicks /\ PlaybackError(self)

TickNoTrack(self) ==
    Alone(self) /\ nticks < MaxTicks /\ PlaybackNoTrack(self)

TickTrack(self) ==
    Alone(self) /\ nticks < MaxTicks /\ PlaybackTrack(self, MaxProgress)

Next ==
    \E self \in Threads :
        \/ TickError(self)
        \/ TickNoTrack(self)
        \/ TickTrack(self)
        \/ Body(self, GetAnswers, SearchAnswers, BOOLEAN)

Spec == Init /\ [][Next]_vars

\* the poller thread and a request thread interleaved at will, with a Lyrics
\* Source that is reachable and answers 200, or 404 and no candidate, and a
\* translation backend that works
StartError(self) == nticks < MaxOverlap /\ PlaybackError(self)

StartNoTrack(self) == nticks < MaxOverlap /\ PlaybackNoTrack(self)

StartTrack(self) == nticks < MaxOverlap /\ PlaybackTrack(self, 0)

ThreadsNext ==
    \E self \in Threads :
        \/ StartError(self)
        \/ StartNoTrack(self)
        \/ StartTrack(self)
        \/ Body(self, {"200", "404"}, {"empty"}, {TRUE})

SpecThreads == Init /\ [][ThreadsNext]_vars

\* the page: answers of /api/state arrive, frames are drawn, time passes
ClientNext ==
    \/ \E j \in Answers : FirstFetch(j)
    \/ \E j \in Answers : FetchState(j)
    \/ HighlightLoop
    \/ ClockTick

SpecClient == Init /\ [][ClientNext]_vars

\* the Active-Line Resolver on its own: a sorted line sequence is on display
\* and the frames find the playback at any position
ResolverTimes ==
    { <<0, 1000, 2000>>, <<500, 1000>>, <<0, 0, 1000>>, <<150, 400, 400>>,
      <<300>> }

ResolverLines(ts) == [i \in 1..Len(ts) |-> LrcLine(ts[i], <<"w">>)]

Positions == {0, 1000, 3900, 4100, 5000, 7400, 10000, 14100, 20000}

InitResolver ==
    /\ InitServer
    /\ InitClock
    /\ InitPure
    /\ \E ts \in ResolverTimes :
          /\ lrc = ResolverLines(ts)
          /\ lastLyricsSig = lyricsSignature(lrc)
          /\ rows = Len(lrc)
    /\ currentIdx = -1
    /\ active = {}
    /\ looping = TRUE

\* the sample puts the playback at p and a frame is drawn at once
Frame(p) ==
    /\ baseProgress' = p
    /\ startedAt' = now
    /\ LET pos == PositionMs(p, now, now)
           idx == NextIdx(lrc, currentIdx, pos)
       IN  /\ currentIdx' = idx
           /\ active' = Paint(lrc, idx, rows, active)
           /\ posMs' = pos
           /\ prevIdx' = currentIdx
    /\ UNCHANGED <<lrc, lastProgress, lastLyricsSig, looping, now, rows,
                   sample, serverVars, pureVars>>

ResolverNext == \E p \in Positions : Frame(p)

SpecResolver == InitResolver /\ [][ResolverNext]_vars

\* parse_lrc on its own, on the texts of up to MaxParseLines physical lines
RawLines ==
    { <<Tag(0, 1, <<5>>), Ch("x")>>,
      <<Tag(0, 1, <<5, 0>>), Ch(" "), Ch("y"), Ch(" ")>>,
      <<Tag(0, 0, <<>>), Tag(1, 0, <<0, 5>>), Ch("x")>>,
      <<Ch("y"), Tag(0, 0, <<7>>)>>,
      <<Ch("x"), Ch(" "), Ch("y")>>,
      <<Tag(0, 2, <<>>)>>,
      <<Tag(0, 0, <<>>), Ch(" ")>>,
      <<>> }

ParseTexts ==
    UNION { [1..n -> RawLines] : n \in 0..MaxParseLines }

InitParse ==
    /\ InitServer
    /\ InitClient
    /\ arg \in { [fn |-> "parse_lrc", text |-> text] : text \in ParseTexts }
    /\ result = NoArg

\* result = parse_lrc(text)
Parse ==
    /\ arg.fn = "parse_lrc"
    /\ result = NoArg
    /\ result' = [fn |-> "parse_lrc", lines |-> parse_lrc(arg.text)]
    /\ UNCHANGED <<arg, serverVars, clientVars>>

SpecParse == InitParse /\ [][Parse]_vars

\* enrich_with_pinyin_and_trans on its own, on up to MaxEnrichLines lines;
\* the Argos model is installed or not, and translate fails on some texts
EnrichTexts == { <<"H1">>, <<"H2", "a">>, <<"a">> }

EnrichLines ==
    UNION { { [i \in 1..n |-> LrcLine(i * 100, texts[i])] :
                texts \in [1..n -> EnrichTexts] } : n \in 0..MaxEnrichLines }

InitEnrich ==
    /\ InitServer
    /\ InitClient
    /\ arg \in { [fn |-> "enrich", lines |-> lines, avail |-> avail,
                  fails |-> fails] :
                    lines \in EnrichLines, avail \in BOOLEAN,
                    fails \in SUBSET { x \in EnrichTexts : is_cjk(x) } }
    /\ result = NoArg

\* result = enrich_with_pinyin_and_trans(lines), and the translate calls made
Enrich ==
    /\ arg.fn = "enrich"
    /\ result = NoArg
    /\ result' =
          [fn |-> "enrich",
           lines |-> enrich_with_pinyin_and_trans(arg.lines, arg.avail,
                                                  arg.fails),
           calls |-> translate_calls([i \in 1..Len(arg.lines) |->
                                          arg.lines[i].text], arg.avail)]
    /\ UNCHANGED <<arg, serverVars, clientVars>>

SpecEnrich == InitEnrich /\ [][Enrich]_vars

\* ------------------------------------------------------------- properties
\* the trackName the Lyrics Source files the lyrics of track id under
TrackName(id) == IF id = None THEN <<>> ELSE normalize_title(Catalogue(id).name)

\* a refresh_state call that was given a track has run to its end
TrackTickDone(self) == pc[self] = "ret" /\ pb[self].kind = "track"

\* one pass through the fallback chain: calls 1..k, k <= 3, in order
OnePass(cs) ==
    /\ Len(cs) \in 1..3
    /\ \A i \in 1..Len(cs) : cs[i].n = i

\* C1: in ticks run one after another that each report a track, a tick with
\* the track id of the previous tick makes no fetch_lrclib call, and a tick
\* with another track id makes exactly one pass through the fallback chain.
C1_TrackChangeDetection ==
    \A self \in Threads :
        TrackTickDone(self) /\ last_tick.rep \in TrackIds
        => IF pb[self].tid = last_tick.rep
           THEN calls[self] = <<>>
           ELSE OnePass(calls[self])

C1_Witness ==
    \E self \in Threads :
        /\ TrackTickDone(self)
        /\ last_tick.rep = pb[self].tid
        /\ calls[self] = <<>>
        /\ state.lrc_lines # <<>>

\* C2: when a poller refresh and a request's refresh interleave across a track
\* change, then once both have finished the lyrics in the shared state are the
\* ones resolved for state.track_id, and Lyrics Resolution has not run twice
\* for the same track change.
InResolution(self) ==
    changed[self] /\ pc[self] \in {"prep", "fetch", "plain", "lines", "advise", "clear"}

C2_InterleavedRefreshConsistent ==
    /\ (\A t \in Threads : pc[t] = "idle") /\ state.track_id # None
       => /\ owner.lines = TrackName(state.track_id)
          /\ owner.plain = TrackName(state.track_id)
    /\ \A t1, t2 \in Threads :
          t1 # t2 /\ InResolution(t1) /\ InResolution(t2)
          => pb[t1].tid # pb[t2].tid

\* C3: every snapshot api_state returns is consistent: its lyric lines and its
\* plain lyrics belong to the track its track id names; a reader never gets
\* the lines of another track than the one named.
C3_SnapshotConsistent ==
    resp.kind = "200" /\ resp.owner.lines # <<>>
    => /\ resp.owner.lines = TrackName(resp.track_id)
       /\ resp.owner.plain = TrackName(resp.track_id)

\* C4: when a Lyrics Source call failed during a track-change tick and the
\* tick got no lyrics, the next scheduled tick attempts Lyrics Resolution for
\* that same track again.
C4_FailedLookupRetried ==
    TrackTickDone("poller") /\ last_tick.failed
        /\ last_tick.rep = pb["poller"].tid
    => calls["poller"] # <<>>

\* C5: a failed request (network error, non-2xx) makes its attempt yield no
\* result and resolution goes on; refresh_state never gets an exception out
\* of Lyrics Resolution.
C5_FailureYieldsNoResult ==
    \A self \in Threads :
        /\ ~exc[self]
        /\ \A i \in 1..Len(calls[self]) :
              calls[self][i].failed => calls[self][i].out = "None"

\* the fields of TrackState
Fields == {"track_id", "title", "artists", "duration_ms", "progress_ms",
           "is_playing", "lrc_lines", "plain_lyrics", "last_error"}

\* C6: when the Playback Source call raises, refresh_state sets last_error to
\* a non-empty string, writes nothing else and calls no Lyrics Source; the
\* poller goes on to its next sleep after every tick, whether refresh_state
\* returned or raised.
C6_PlaybackErrorSkipsTick ==
    [][ /\ \A self \in Threads :
              pc[self] = "idle" /\ pb'[self].kind = PbRaise
              => /\ state'.last_error # <<>>
                 /\ \A f \in Fields \ {"last_error"} : state'[f] = state[f]
                 /\ calls'[self] = <<>>
                 /\ pc'[self] = "ret"
        /\ pc["poller"] = "ret" /\ pc'["poller"] # "ret"
              => pc'["poller"] = "idle"
      ]_vars

C6_Witness ==
    /\ pc["poller"] = "ret"
    /\ pb["poller"].kind = PbRaise
    /\ state.last_error = <<"spotify error">>
    /\ state.lrc_lines # <<>>
    /\ state.is_playing

\* C7: a tick on which the Playback Source reports no playback, a non-track
\* item or no item sets is_playing to false, leaves every other field as it
\* was and calls no Lyrics Source.
C7_NoTrackFrame ==
    [][ \A self \in Threads :
            pc[self] = "idle" /\ pb'[self].kind = PbNoTrack
            => /\ state'.is_playing = FALSE
               /\ \A f \in Fields \ {"is_playing"} : state'[f] = state[f]
               /\ calls'[self] = <<>>
               /\ pc'[self] = "ret"
      ]_vars

C7_Witness ==
    \E self \in Threads :
        /\ pc[self] = "ret"
        /\ pb[self].kind = PbNoTrack
        /\ last_tick.rep \in TrackIds
        /\ state.track_id = last_tick.rep
        /\ state.lrc_lines # <<>>
        /\ state.plain_lyrics # <<>>
        /\ ~state.is_playing

ExpectedArgs(n, item) ==
    [artist |-> IF n = 3 THEN join_artists(item.artists)
                ELSE primary_artist(join_artists(item.artists)),
     title |-> normalize_title(item.name),
     dur |-> IF n = 2 THEN NoDuration ELSE dur_sec_of(item.duration_ms)]

\* C9: the attempts are made in the order (1) primary artist, title, duration
\* (2) primary artist, title, no duration (3) full artist string, title,
\* duration; an attempt is made only if every one before it yielded no result,
\* and the result used is that of the first attempt that returned one.
C9_FallbackOrder ==
    \A self \in Threads :
        LET cs == calls[self]
            item == Catalogue(pb[self].tid)
        IN  /\ Len(cs) <= 3
            /\ \A i \in 1..Len(cs) :
                  /\ cs[i].n = i
                  /\ [artist |-> cs[i].artist, title |-> cs[i].title,
                      dur |-> cs[i].dur] = ExpectedArgs(i, item)
                  /\ i < Len(cs) => cs[i].out = "None"
            /\ data[self].kind = "json"
                  => cs # <<>> /\ cs[Len(cs)].out = "data"
                        /\ data[self] = cs[Len(cs)].doc
            /\ pc[self] \in {"lines", "advise"} => data[self].kind = "json"
            /\ pc[self] \in {"plain", "clear"} /\ data[self].kind # "json"
                  => Len(cs) = 3 /\ cs[3].out = "None"

C9_Witness ==
    \E self \in Threads :
        /\ pc[self] = "plain"
        /\ Len(calls[self]) = 2
        /\ calls[self][1].out = "None"
        /\ calls[self][2].out = "data"
        /\ data[self] = calls[self][2].doc

\* C10: while the latest playback sample has is_playing = false, the position
\* highlightLoop picks the active line from is that sample's progress, at
\* every later frame until a new sample arrives.
C10_PausedPositionFrozen ==
    posMs # -1 /\ ~sample.is_playing => posMs = sample.progress_ms

\* C11: a sample whose progress is lower than the previous sample's is taken
\* as the new anchor: after fetchState has processed any sample, baseProgress
\* is that sample's progress and startedAt its arrival time.
C11_RegressionAccepted ==
    sample.any => baseProgress = sample.progress_ms /\ startedAt = sample.at

\* a frame has run with retained index i, which has a next line, at a position
\* not before line i
Retained(i) ==
    /\ posMs # -1
    /\ prevIdx = i
    /\ i >= 0 /\ i + 1 < Len(lrc)
    /\ posMs >= 10 * lrc[i + 1].t

\* lines[i].t + 0.4 * (lines[i+1].t - lines[i].t), in ms
Threshold(i) == 10 * lrc[i + 1].t + 4 * (lrc[i + 2].t - lrc[i + 1].t)

\* C12 as stated: with retained index i the resolver keeps i below the 40%
\* threshold and has switched forward once the position has passed it; with
\* lines at 0, 10, 20 s and retained index 0, 3.9 s keeps 0 and 4.1 s gives 1.
C12_HysteresisAt40Percent ==
    \A i \in 0..2 :
        Retained(i)
        => /\ posMs < Threshold(i) => currentIdx = i
           /\ posMs > Threshold(i) => currentIdx > i

\* C12 amended: with retained index i the resolver keeps i while the position
\* is before the next line's time and switches forward once it has reached
\* that time, where the 40% threshold is always passed; with lines at 0, 10,
\* 20 s and retained index 0, both 3.9 s and 4.1 s keep index 0.
C12_SwitchAtNextLine ==
    \A i \in 0..2 :
        Retained(i)
        => /\ posMs < 10 * lrc[i + 2].t => currentIdx = i
           /\ posMs >= 10 * lrc[i + 2].t
                 => currentIdx > i /\ posMs >= Threshold(i)

C12_Witness ==
    /\ lrc = ResolverLines(<<0, 1000, 2000>>)
    /\ Retained(0)
    /\ posMs = 4100
    /\ currentIdx = 0

\* C13: with an empty line sequence no line is the active one, at every
\* position and after any number of frames: no row of the page is of class
\* 'active' and the retained index is -1 or the clamped candidate 0, which
\* names no line of the empty sequence.
C13_EmptyLinesNoActiveLine ==
    lrc = <<>> => active = {} /\ currentIdx \in {-1, 0}

C13_Witness ==
    /\ lrc = <<>>
    /\ lastLyricsSig = <<0>>
    /\ prevIdx = 0
    /\ posMs > 0
    /\ currentIdx = 0
    /\ active = {}

\* the plain clamped lookup: the greatest index whose line is not after the
\* position, 0 when there is none
Clamped(arr, pos) ==
    LET at == {i \in 0..(Len(arr) - 1) : arr[i + 1].t * 10 <= pos}
    IN  IF at = {} THEN 0 ELSE CHOOSE i \in at : \A k \in at : k <= i

\* C18: for a non-empty sorted line sequence the retained index after every
\* highlightLoop step is the clamped lookup of the position: the 40% threshold
\* never holds back a forward switch.
C18_EqualsClampedLookup ==
    posMs # -1 /\ lrc # <<>> => currentIdx = Clamped(lrc, posMs)

C18_Witness ==
    /\ Len(lrc) = 3
    /\ posMs # -1
    /\ prevIdx = 0
    /\ currentIdx = 2

\* non-decreasing by time
SortedByT(lines) ==
    \A i, j \in 1..Len(lines) : i < j => lines[i].t <= lines[j].t

\* C14: in every reachable shared state lrc_lines is sorted non-decreasingly
\* by time and every line has a non-empty text; lines synthesized from the
\* plain lyrics have strictly increasing times and the order of the plain
\* lyrics' lines.
C14_LinesSortedNonEmpty ==
    /\ SortedByT(state.lrc_lines)
    /\ \A i \in 1..Len(state.lrc_lines) : state.lrc_lines[i].text # <<>>
    /\ \A self \in Threads :
          pc[self] = "advise" /\ ~SyncedNonBlank(data[self].syncedLyrics)
          => LET ls == state.lrc_lines
                 plain == data[self].plainLyrics
             IN  \A i, j \in 1..Len(ls) :
                    i < j
                    => /\ ls[i].t < ls[j].t
                       /\ \E a, b \in 1..Len(plain) :
                             /\ a < b
                             /\ strip(plain[a]) = ls[i].text
                             /\ strip(plain[b]) = ls[j].text

C14_Witness ==
    \E self \in Threads :
        /\ pc[self] = "advise"
        /\ data[self].syncedLyrics = SyncedText
        /\ Len(state.lrc_lines) = 2
        /\ state.lrc_lines[1].t < state.lrc_lines[2].t

\* the places <<i, j>> of the tags of a text
TagPlaces(text) ==
    UNION { { <<i, j>> : j \in { k \in 1..Len(text[i]) : IsTag(text[i][k]) } } :
            i \in 1..Len(text) }

\* the text of a physical line: what is left without the tags, stripped
LyricOf(raw) ==
    LET rest == SelectSeq(raw, LAMBDA tok : ~IsTag(tok))
    IN  strip([i \in 1..Len(rest) |-> rest[i].c])

\* the tags of the physical lines that have a text
EmittingPlaces(text) == { p \in TagPlaces(text) : LyricOf(text[p[1]]) # <<>> }

\* the line a tag stands for
LineAt(text, p) == LrcLine(TagTime(text[p[1]][p[2]]), LyricOf(text[p[1]]))

Before(p1, p2) == p1[1] < p2[1] \/ (p1[1] = p2[1] /\ p1[2] < p2[2])

\* lines lists one line per place of the set, sorted by time, ties in the
\* order of the text
EmitsSorted(lines, text, places) ==
    /\ Len(lines) = Cardinality(places)
    /\ \A p \in places : \E k \in 1..Len(lines) : lines[k] = LineAt(text, p)
    /\ SortedByT(lines)
    /\ \A k, l \in 1..Len(lines) :
          k < l /\ lines[k].t = lines[l].t /\ lines[k] # lines[l]
          => \E p1, p2 \in places :
                /\ Before(p1, p2)
                /\ lines[k] = LineAt(text, p1)
                /\ lines[l] = LineAt(text, p2)

\* C15 as stated: a text with N valid tags gives exactly N lines, one per tag
\* with its physical line's stripped text, sorted by time with ties in the
\* original order.
C15_OneLinePerTag ==
    result.fn = "parse_lrc"
    => EmitsSorted(result.lines, arg.text, TagPlaces(arg.text))

\* C15 amended: parse_lrc emits one line per tag of the physical lines whose
\* stripped text is non-empty, sorted by time with ties in the original
\* order; a physical line with no tag or with no text contributes no line.
C15_OneLinePerTagWithText ==
    result.fn = "parse_lrc"
    => EmitsSorted(result.lines, arg.text, EmittingPlaces(arg.text))

C15_Witness ==
    /\ result.fn = "parse_lrc"
    /\ Cardinality(TagPlaces(arg.text)) = 3
    /\ Len(result.lines) = 2
    /\ result.lines[1].t < result.lines[2].t

\* C16: enrichment calls translate at most once per distinct target-script
\* text and never for a text without target-script characters; the lines that
\* share a text get the same translation; a text whose translate call fails
\* gets the empty translation and the other texts are still translated.
C16_TranslateOncePerText ==
    result.fn = "enrich"
    => LET ls == result.lines
           cs == result.calls
       IN  /\ \A i, j \in 1..Len(cs) : i # j => cs[i] # cs[j]
           /\ \A i \in 1..Len(cs) : is_cjk(cs[i])
           /\ \A i, j \in 1..Len(ls) :
                 ls[i].text = ls[j].text => ls[i].trans = ls[j].trans
           /\ \A i \in 1..Len(ls) :
                 /\ ls[i].text \in arg.fails => ls[i].trans = <<>>
                 /\ arg.avail /\ is_cjk(ls[i].text)
                       /\ ls[i].text \notin arg.fails
                    => /\ ls[i].trans = English(ls[i].text)
                       /\ \E k \in 1..Len(cs) : cs[k] = ls[i].text

C16_Witness ==
    /\ result.fn = "enrich"
    /\ arg.avail
    /\ Len(result.calls) = 2
    /\ \E i, j, k \in 1..Len(result.lines) :
          /\ i # j
          /\ result.lines[i].text = result.lines[j].text
          /\ result.lines[i].trans # <<>>
          /\ result.lines[k].text \in arg.fails
          /\ result.lines[k].trans = <<>>

\* how often the advisory stands in last_error
Advisories(st) ==
    Cardinality({ i \in 1..Len(st.last_error) :
                    st.last_error[i] = "argos not installed" })

\* a track-change tick has resolved lyrics with a target-script line and has
\* run to its end
ResolvedCjk(self) ==
    /\ pc[self] = "ret"
    /\ changed[self]
    /\ ~exc[self]
    /\ data[self].kind = "json"
    /\ \E i \in 1..Len(state.lrc_lines) : is_cjk(state.lrc_lines[i].text)

\* C17: on a track-change tick whose lyrics have a target-script line, the
\* advisory is appended to last_error once if the translation backend is
\* unavailable and not at all if it is available; the lines are published
\* with text and pinyin, and with empty translations when it is unavailable.
C17_AdvisoryIffUnavailable ==
    \A self \in Threads :
        ResolvedCjk(self)
        => /\ Advisories(state) = IF owner.argos = "no" THEN 1 ELSE 0
           /\ \A i \in 1..Len(state.lrc_lines) :
                 /\ state.lrc_lines[i].text # <<>>
                 /\ state.lrc_lines[i].pinyin = to_pinyin(state.lrc_lines[i].text)
                 /\ owner.argos = "no" => state.lrc_lines[i].trans = <<>>

\* C19: a tick that finds a track resets last_error before the track-change
\* test and the advisory is added only in the track-change branch: after a
\* tick with the same track last_error is empty, after a track-change tick it
\* holds at most the advisory, and the response api_state builds after a
\* same-track refresh carries no error.
C19_ErrorGoneAfterSameTrackTick ==
    /\ \A self \in Threads :
          TrackTickDone(self) /\ ~exc[self]
          => /\ ~changed[self] => state.last_error = <<>>
             /\ state.last_error \in {<<>>, <<"argos not installed">>}
    /\ resp.kind = "200" /\ last_tick.rep \in TrackIds /\ ~last_tick.changed
       => resp.error = <<>>

C19_Witness ==
    /\ resp.kind = "200"
    /\ last_tick.rep \in TrackIds
    /\ ~last_tick.changed
    /\ owner.argos = "no"
    /\ \E i \in 1..Len(resp.lrc) : is_cjk(resp.lrc[i].text)
    /\ resp.error = <<>>

\* C20: after fetchState has processed a successful response the page's lrc
\* is the lrc list of that response, for every sequence of responses: also
\* after a change to a track with no lyrics at all, or to one whose lyrics
\* have the same length, first text and last text.
C20_ClientLinesEqualResponse ==
    sample.any => lrc = sample.lrc

====
